---- MODULE Spec2Model ----
(***************************************************************************)
(* Hyperspherical harmonics: indexing engine of ultrasphere-harmonics.     *)
(* Tensors are records [shape, data] with data in row-major order, the     *)
(* layout the array backend uses; they carry no batch axes (one angular    *)
(* sample point).  Eigenfunction values are symbolic integers.             *)
(***************************************************************************)
EXTENDS Integers, Sequences, FiniteSets, TLC

\* ------------------------------------------------------------------ bounds
MaxNEnd == 3
MaxSize == 6
MaxDegree == 5
MaxCNdim == 5
Salts == {1, 50}
\* labels of the points (the spherical argument) at which harmonics, expansions
\* and translation coefficients are evaluated
PointSalts == {1}

\* an optional argument: None, or Some(v)
None == << >>
Some(v) == <<v>>

\* the fill_value arguments given to the evaluators (0 is the default)
FillValues == {0, 7}

\* the fill value a caller of unflatten may try to pass
Fills == {None, Some(9)}

\* ------------------------------------------------- coordinate trees (input)
\* A tree lists its angular nodes in c.s_nodes order; cos/sin give the
\* position in c.s_nodes of the child reached by that edge (0: Cartesian leaf).
TreeOf ==
  [ line |-> [types |-> << >>,             cos |-> << >>,       sin |-> << >>],
    a    |-> [types |-> <<"A">>,           cos |-> <<0>>,       sin |-> <<0>>],
    ba   |-> [types |-> <<"B", "A">>,      cos |-> <<0, 0>>,    sin |-> <<2, 0>>],
    bpa  |-> [types |-> <<"BP", "A">>,     cos |-> <<2, 0>>,    sin |-> <<0, 0>>],
    bba  |-> [types |-> <<"B", "B", "A">>, cos |-> <<0, 0, 0>>, sin |-> <<2, 3, 0>>],
    caa  |-> [types |-> <<"C", "A", "A">>, cos |-> <<2, 0, 0>>, sin |-> <<3, 0, 0>>] ]

TreeNames == DOMAIN TreeOf

s_ndim(t) == Len(TreeOf[t].types)
c_ndim(t) == s_ndim(t) + 1
branching_types(t, node) == TreeOf[t].types[node]
get_child(t, node, edge) == IF edge = "sin" THEN TreeOf[t].sin[node] ELSE TreeOf[t].cos[node]

\* ------------------------------------------------------ dimension formulas
RECURSIVE binom(_, _)
binom(n, k) == IF k < 0 \/ k > n THEN 0
               ELSE IF k = 0 THEN 1
               ELSE (binom(n - 1, k - 1) * n) \div k

\* xp.round of the quotient a / b of two non-negative integers
RoundDiv(a, b) == (2 * a + b) \div (2 * b)

harm_n_ndim_eq(n, d) ==
  IF d > 2 THEN RoundDiv((2 * n + d - 2) * binom(n + d - 3, d - 3), d - 2)
  ELSE IF d = 1 THEN (IF n <= 1 THEN 1 ELSE 0)
  ELSE (IF n = 0 THEN 1 ELSE 2)

harm_n_ndim_le_same_dimension(n_end, d) ==
  IF n_end < 1 THEN 0
  ELSE IF n_end = 1 THEN harm_n_ndim_eq(0, d)
  ELSE harm_n_ndim_eq(n_end - 1, d)

harm_n_ndim_le(n_end, d) ==
  IF n_end < 1 THEN 0
  ELSE IF n_end = 1 THEN harm_n_ndim_eq(0, d)
  ELSE harm_n_ndim_eq(n_end - 1, d + 1)

\* ------------------------------------------------------------ array engine
\* the buffer of an array: the function f over 1..N stored as a sequence
Buffer(f) == f \o << >>

RECURSIVE ProdFrom(_, _)
ProdFrom(shape, d) == IF d > Len(shape) THEN 1 ELSE shape[d] * ProdFrom(shape, d + 1)
Size(shape) == ProdFrom(shape, 1)

\* 0-based row-major linear index <-> 0-based multi-index
Unravel(k, shape) == [d \in 1..Len(shape) |-> (k \div ProdFrom(shape, d + 1)) % shape[d]]
RECURSIVE RavelFrom(_, _, _)
RavelFrom(idx, shape, d) ==
  IF d > Len(shape) THEN 0 ELSE idx[d] * ProdFrom(shape, d + 1) + RavelFrom(idx, shape, d + 1)
Ravel(idx, shape) == RavelFrom(idx, shape, 1)

\* element of t at idx, reading through length-1 (broadcast) axes
At(t, idx) ==
  t.data[1 + Ravel([d \in 1..Len(t.shape) |-> IF t.shape[d] = 1 THEN 0 ELSE idx[d]], t.shape)]

\* a shape no array has: marks a failed broadcast
ShapeError == <<-1>>
NoTensor == [shape |-> ShapeError, data |-> << >>]
Broadcastable(s1, s2) ==
  /\ Len(s1) = Len(s2)
  /\ \A d \in 1..Len(s1) : s1[d] = s2[d] \/ s1[d] = 1 \/ s2[d] = 1
broadcast_shapes(s1, s2) ==
  IF s1 = ShapeError \/ s2 = ShapeError THEN ShapeError
  ELSE IF ~Broadcastable(s1, s2) THEN ShapeError
  ELSE [d \in 1..Len(s1) |-> IF s1[d] = 1 THEN s2[d] ELSE s1[d]]

broadcast_to(t, shape) ==
  [shape |-> shape, data |-> Buffer([k \in 1..Size(shape) |-> At(t, Unravel(k - 1, shape))])]

Abs(v) == IF v < 0 THEN -v ELSE v

\* the elementwise operations of the mask and of the product of the node tensors
LeqSigned(child, self) == child <= self
LeqAbs(child, self) == Abs(child) <= self
SubAbs(self, child) == self - Abs(child)
And(p, q) == p /\ q
EvenNonNeg(p, value) == p /\ (value % 2 = 0) /\ (value >= 0)
Times(p, q) == p * q
Apply(op, p, q) ==
  CASE op = "LeqAbs" -> LeqAbs(p, q)
    [] op = "SubAbs" -> SubAbs(p, q)
    [] op = "And" -> And(p, q)
    [] op = "EvenNonNeg" -> EvenNonNeg(p, q)
    [] op = "Times" -> Times(p, q)

\* elementwise binary operation with broadcasting
Elementwise(op, a, b) ==
  LET shape == broadcast_shapes(a.shape, b.shape)
  IN [shape |-> shape,
      data |-> Buffer([k \in 1..Size(shape) |->
                  Apply(op, At(a, Unravel(k - 1, shape)), At(b, Unravel(k - 1, shape)))])]

arange(n) == [i \in 1..n |-> i - 1]
\* to_symmetric(x, asymmetric=True): x followed by the negated mirror of x[1:]
to_symmetric_asym(x) ==
  IF Len(x) = 0 THEN x
  ELSE x \o [i \in 1..(Len(x) - 1) |-> -x[Len(x) + 1 - i]]

\* --------------------------------------------------------- index arrays
IndexValues(t, node, n_end, include_negative_m) ==
  IF branching_types(t, node) = "A" /\ include_negative_m
  THEN to_symmetric_asym(arange(n_end))
  ELSE arange(n_end)

\* _index_array_harmonics(..., expand_dims=True)
index_array(t, node, n_end, include_negative_m) ==
  LET result == IndexValues(t, node, n_end, include_negative_m)
  IN [shape |-> [d \in 1..s_ndim(t) |-> IF d = node THEN Len(result) ELSE 1],
      data |-> result]

index_arrays_all(t, n_end, include_negative_m) ==
  [node \in 1..s_ndim(t) |-> index_array(t, node, n_end, include_negative_m)]

RECURSIVE BroadcastAll(_, _, _)
BroadcastAll(shapes, i, acc) ==
  IF i > Len(shapes) THEN acc
  ELSE BroadcastAll(shapes, i + 1, broadcast_shapes(acc, shapes[i]))

\* ------------------------------------------------------------- the mask

MaskOfNode(t, node, ia, mask) ==
  LET bt == branching_types(t, node) IN
  IF bt = "B"
  THEN Elementwise("And", mask, Elementwise("LeqAbs", ia[get_child(t, node, "sin")], ia[node]))
  ELSE IF bt = "BP"
  THEN Elementwise("And", mask, Elementwise("LeqAbs", ia[get_child(t, node, "cos")], ia[node]))
  ELSE IF bt = "C"
  THEN Elementwise("EvenNonNeg", mask,
         Elementwise("SubAbs",
           Elementwise("SubAbs", ia[node], ia[get_child(t, node, "sin")]),
           ia[get_child(t, node, "cos")]))
  ELSE mask

RECURSIVE MaskLoop(_, _, _, _)
MaskLoop(t, ia, node, mask) ==
  IF node > s_ndim(t) THEN mask
  ELSE MaskLoop(t, ia, node + 1, MaskOfNode(t, node, ia, mask))

flatten_mask_harmonics(t, n_end, include_negative_m) ==
  LET ia == index_arrays_all(t, n_end, include_negative_m)
      ones == [shape |-> [d \in 1..s_ndim(t) |-> 1], data |-> <<TRUE>>]
      mask == MaskLoop(t, ia, 1, ones)
      shape == BroadcastAll([node \in 1..s_ndim(t) |-> ia[node].shape], 1,
                            [d \in 1..s_ndim(t) |-> 1])
  IN broadcast_to(mask, shape)

RECURSIVE CountFrom(_, _)
CountFrom(m, k) == IF k > Len(m) THEN 0 ELSE (IF m[k] THEN 1 ELSE 0) + CountFrom(m, k + 1)
CountTrue(m) == CountFrom(m, 1)

\* ------------------------------------------- parameter inference (_assume)
RECURSIVE MaxFrom(_, _)
MaxFrom(sizes, d) ==
  IF d = Len(sizes) THEN sizes[d]
  ELSE LET rest == MaxFrom(sizes, d + 1) IN IF sizes[d] > rest THEN sizes[d] ELSE rest

\* assume_n_end_and_include_negative_m_from_harmonics(c, shape, flatten=False)
assume_unflattened(t, shape) ==
  IF s_ndim(t) = 0 THEN <<0, FALSE>>
  ELSE LET sizes == shape
           n == (MaxFrom(sizes, 1) + 1) \div 2
       IN <<n, ~(\A d \in 1..Len(sizes) : sizes[d] = n)>>

\* ------------------------------------------------------ flatten / unflatten
RECURSIVE SelectByMaskBackwards(_, _, _)
SelectByMaskBackwards(data, m, k) ==
  IF k > Len(m) THEN << >>
  ELSE SelectByMaskBackwards(data, m, k + 1) \o (IF m[k] THEN <<data[k]>> ELSE << >>)

\* harmonics[..., mask]: the entries at the True positions, scanned row-major
RECURSIVE SelectByMask(_, _, _)
SelectByMask(data, m, k) ==
  IF k > Len(m) THEN << >>
  ELSE (IF m[k] THEN <<data[k]>> ELSE << >>) \o SelectByMask(data, m, k + 1)

flatten_harmonics(t, harmonics, n_end_arg, inm_arg) ==
  LET infer == n_end_arg = None \/ inm_arg = None
      assumed == assume_unflattened(t, harmonics.shape)
      n == IF infer THEN assumed[1] ELSE n_end_arg[1]
      b == IF infer THEN assumed[2] ELSE inm_arg[1]
      mask == flatten_mask_harmonics(t, n, b)
      shape == broadcast_shapes(harmonics.shape, mask.shape)
  IN IF shape = ShapeError
     THEN [err |-> "ValueError", flat |-> << >>, mask |-> mask, n_end |-> n, inm |-> b]
     ELSE IF shape # mask.shape
     THEN [err |-> "IndexError", flat |-> << >>, mask |-> mask, n_end |-> n, inm |-> b]
     ELSE [err |-> "none",
           flat |-> SelectByMask(broadcast_to(harmonics, shape).data, mask.data, 1),
           mask |-> mask, n_end |-> n, inm |-> b]

RECURSIVE ScatterFromEnd(_, _, _, _)
ScatterFromEnd(m, y, k, j) ==
  IF k > Len(m) THEN << >>
  ELSE IF m[k] THEN <<y[Len(y) + 1 - j]>> \o ScatterFromEnd(m, y, k + 1, j + 1)
  ELSE <<0>> \o ScatterFromEnd(m, y, k + 1, j)

RECURSIVE ScatterIntoOnes(_, _, _, _)
ScatterIntoOnes(m, y, k, j) ==
  IF k > Len(m) THEN << >>
  ELSE IF m[k] THEN <<y[IF Len(y) = 1 THEN 1 ELSE j]>> \o ScatterIntoOnes(m, y, k + 1, j + 1)
  ELSE <<1>> \o ScatterIntoOnes(m, y, k + 1, j)

\* result = zeros(shape); result[..., mask] = harmonics
RECURSIVE Scatter(_, _, _, _)
Scatter(m, y, k, j) ==
  IF k > Len(m) THEN << >>
  ELSE IF m[k] THEN <<y[IF Len(y) = 1 THEN 1 ELSE j]>> \o Scatter(m, y, k + 1, j + 1)
  ELSE <<0>> \o Scatter(m, y, k + 1, j)

\* unflatten_harmonics once the search loop has found n
unflatten_harmonics(t, harmonics, n, include_negative_m) ==
  LET mask == flatten_mask_harmonics(t, n, include_negative_m)
  IN IF Len(harmonics) # CountTrue(mask.data) /\ Len(harmonics) # 1
     THEN [err |-> "ValueError", result |-> NoTensor, mask |-> mask]
     ELSE [err |-> "none",
           result |-> [shape |-> mask.shape, data |-> Scatter(mask.data, harmonics, 1, 1)],
           mask |-> mask]

\* index_array_harmonics(c, node, n_end=n_end, expand_dims=True,
\* include_negative_m=..., flatten=True): flatten_harmonics is given n_end and
\* include_negative_m
index_array_harmonics(t, node, n, include_negative_m) ==
  flatten_harmonics(t, index_array(t, node, n, include_negative_m),
                    Some(n), Some(include_negative_m))

\* index_array_harmonics_all(c, n_end=n_end, include_negative_m=...,
\* expand_dims=True, as_array=False, flatten=True): flatten_harmonics(c,
\* index_array) for each node, n_end and include_negative_m left to inference
index_array_harmonics_all(t, n, include_negative_m) ==
  LET index_arrays == index_arrays_all(t, n, include_negative_m)
  IN [node \in 1..s_ndim(t) |-> flatten_harmonics(t, index_arrays[node], None, None)]

\* --------------------------------------------------------------- degree cut
\* expand_cut(c, expansion, n_end) on an array: expansion[..., :harm_n_ndim_le(n_end, c_ndim)]
expand_cut(t, expansion, n) ==
  LET stop == harm_n_ndim_le(n, c_ndim(t))
  IN SubSeq(expansion, 1, IF stop < Len(expansion) THEN stop ELSE Len(expansion))

\* -------------------------------------------------- eigenfunction evaluators
\* Phase flags: CONDON_SHORTLEY = 1, NEGATIVE_LEGENDRE = 2
Phases == 0..3
CONDON_SHORTLEY(phase) == phase % 2 = 1
NEGATIVE_LEGENDRE(phase) == phase \div 2 = 1
minus_1_power(x) == 1 - 2 * (x % 2)

PhaseSignIgnoringLegendre(m, phase) ==
  IF CONDON_SHORTLEY(phase) THEN minus_1_power(m)
  ELSE (IF NEGATIVE_LEGENDRE(phase) THEN minus_1_power((Abs(m) - m) \div 2) ELSE 1)

\* the sign type_a multiplies onto exp(i m theta) / sqrt(2 pi)
PhaseSign(m, phase) ==
  IF CONDON_SHORTLEY(phase)
  THEN (IF NEGATIVE_LEGENDRE(phase) THEN minus_1_power((Abs(m) + m) \div 2)
        ELSE minus_1_power(m))
  ELSE (IF NEGATIVE_LEGENDRE(phase) THEN minus_1_power((Abs(m) - m) \div 2) ELSE 1)

\* symbolic non-zero value standing for exp(i m theta) / sqrt(2 pi)
ExpValue(m, salt) == salt + 2 * Abs(m) + (IF m < 0 THEN 1 ELSE 0)

type_a_ascending(n, phase, include_negative_m, salt) ==
  LET m == IF include_negative_m /\ n > 0 THEN [j \in 1..(2 * n - 1) |-> j - n] ELSE arange(n)
  IN [shape |-> <<Len(m)>>,
      data |-> [j \in 1..Len(m) |-> ExpValue(m[j], salt) * PhaseSign(m[j], phase)]]

type_a(n, phase, include_negative_m, salt) ==
  LET m == IF include_negative_m THEN to_symmetric_asym(arange(n)) ELSE arange(n)
  IN [shape |-> <<Len(m)>>,
      data |-> [j \in 1..Len(m) |-> ExpValue(m[j], salt) * PhaseSign(m[j], phase)]]

shift_nth_row_n_steps_wrapping(x, axis_row, fill_value) ==
  LET last == Len(x.shape)
  IN [shape |-> x.shape,
      data |-> Buffer([k \in 1..Size(x.shape) |->
                  LET idx == Unravel(k - 1, x.shape)
                  IN At(x, [idx EXCEPT ![last] = (idx[last] - idx[axis_row]) % x.shape[last]])])]

\* shift_nth_row_n_steps(x, axis_row, axis_shift=-1, cut_padding=True, fill_values)
shift_nth_row_n_steps(x, axis_row, fill_value) ==
  LET last == Len(x.shape)
  IN [shape |-> x.shape,
      data |-> Buffer([k \in 1..Size(x.shape) |->
                  LET idx == Unravel(k - 1, x.shape)
                  IN IF idx[last] - idx[axis_row] >= 0
                     THEN At(x, [idx EXCEPT ![last] = idx[last] - idx[axis_row]])
                     ELSE fill_value])]

\* to_symmetric(x, axis, asymmetric=False): x followed by the mirror of x[1:] along axis
to_symmetric(x, axis) ==
  LET len == x.shape[axis]
      shape == [x.shape EXCEPT ![axis] = IF len = 0 THEN 0 ELSE 2 * len - 1]
  IN [shape |-> shape,
      data |-> Buffer([k \in 1..Size(shape) |->
                  LET idx == Unravel(k - 1, shape)
                  IN x.data[1 + Ravel([idx EXCEPT ![axis] =
                                         IF idx[axis] < len THEN idx[axis]
                                         ELSE 2 * len - 1 - idx[axis]], x.shape)]])]

\* symbolic non-zero values of the Jacobi-polynomial product before reindexing
Surrogate(shape, salt) == [shape |-> shape, data |-> Buffer([k \in 1..Size(shape) |-> salt + k])]

type_b_fill_above(n, index_with_surrogate_quantum_number, is_child_type_a_and_inm, fill_value, salt) ==
  LET res == Surrogate(<<n, n>>, salt)
      shifted == IF ~index_with_surrogate_quantum_number
                 THEN [shape |-> res.shape,
                       data |-> [k \in 1..Size(res.shape) |->
                                   LET idx == Unravel(k - 1, res.shape)
                                   IN IF idx[1] + idx[2] < n
                                      THEN At(res, <<idx[1], idx[1] + idx[2]>>)
                                      ELSE fill_value]]
                 ELSE res
  IN IF is_child_type_a_and_inm THEN to_symmetric(shifted, 1) ELSE shifted

\* type_b and type_bdash: [l_child, n] -> [l_child, l = n + l_child]
type_b(n, index_with_surrogate_quantum_number, is_child_type_a_and_inm, fill_value, salt) ==
  LET res == Surrogate(<<n, n>>, salt)
      shifted == IF ~index_with_surrogate_quantum_number
                 THEN shift_nth_row_n_steps(res, 1, fill_value) ELSE res
  IN IF is_child_type_a_and_inm THEN to_symmetric(shifted, 1) ELSE shifted

\* type_bdash: [l_alpha, n] -> [l_alpha, l = n + l_alpha], the same steps as type_b
type_bdash(n, index_with_surrogate_quantum_number, is_child_type_a_and_inm, fill_value, salt) ==
  LET res == Surrogate(<<n, n>>, salt)
      shifted == IF ~index_with_surrogate_quantum_number
                 THEN shift_nth_row_n_steps(res, 1, fill_value) ELSE res
  IN IF is_child_type_a_and_inm THEN to_symmetric(shifted, 1) ELSE shifted

\* res_expaneded = zeros((..., n_end)); res_expaneded[..., ::2] = res
Interleave(res, n) ==
  LET shape == [res.shape EXCEPT ![3] = n]
  IN [shape |-> shape,
      data |-> Buffer([k \in 1..Size(shape) |->
                  LET idx == Unravel(k - 1, shape)
                  IN IF idx[3] % 2 = 0
                     THEN res.data[1 + Ravel([idx EXCEPT ![3] = idx[3] \div 2], res.shape)]
                     ELSE 0])]

type_c_shifted_once(n, index_with_surrogate_quantum_number, is_alpha_type_a_and_inm, is_beta_type_a_and_inm, fill_value, salt) ==
  LET res == Surrogate(<<n, n, (n + 1) \div 2>>, salt)
      shifted == IF ~index_with_surrogate_quantum_number
                 THEN shift_nth_row_n_steps(Interleave(res, n), 1, fill_value)
                 ELSE res
      sym_alpha == IF is_alpha_type_a_and_inm THEN to_symmetric(shifted, 1) ELSE shifted
  IN IF is_beta_type_a_and_inm THEN to_symmetric(sym_alpha, 2) ELSE sym_alpha

type_c(n, index_with_surrogate_quantum_number, is_alpha_type_a_and_inm, is_beta_type_a_and_inm, fill_value, salt) ==
  LET res == Surrogate(<<n, n, (n + 1) \div 2>>, salt)
      shifted == IF ~index_with_surrogate_quantum_number
                 THEN shift_nth_row_n_steps(
                        shift_nth_row_n_steps(Interleave(res, n), 1, fill_value),
                        2, fill_value)
                 ELSE res
      sym_alpha == IF is_alpha_type_a_and_inm THEN to_symmetric(shifted, 1) ELSE shifted
  IN IF is_beta_type_a_and_inm THEN to_symmetric(sym_alpha, 2) ELSE sym_alpha

IsTypeA(t, node) == branching_types(t, node) = "A"

NodeHarmonicsUnsignedChild(t, node, n, phase, include_negative_m, iwsqn, salt) ==
  LET bt == branching_types(t, node) IN
  IF bt = "A" THEN type_a(n, phase, include_negative_m, salt + 10 * node)
  ELSE IF bt = "B" THEN type_b(n, iwsqn, FALSE, 0, salt + 10 * node)
  ELSE IF bt = "BP" THEN type_bdash(n, iwsqn, FALSE, 0, salt + 10 * node)
  ELSE type_c(n, iwsqn, FALSE, FALSE, 0, salt + 10 * node)

\* _harmonics: one evaluator call per node of c.s_nodes
NodeHarmonics(t, node, n, phase, include_negative_m, iwsqn, salt) ==
  LET bt == branching_types(t, node) IN
  IF bt = "A" THEN type_a(n, phase, include_negative_m, salt + 10 * node)
  ELSE IF bt = "B"
  THEN type_b(n, iwsqn, include_negative_m /\ IsTypeA(t, get_child(t, node, "sin")),
              0, salt + 10 * node)
  ELSE IF bt = "BP"
  THEN type_bdash(n, iwsqn, include_negative_m /\ IsTypeA(t, get_child(t, node, "cos")),
              0, salt + 10 * node)
  ELSE type_c(n, iwsqn, include_negative_m /\ IsTypeA(t, get_child(t, node, "cos")),
              include_negative_m /\ IsTypeA(t, get_child(t, node, "sin")),
              0, salt + 10 * node)

_harmonics(t, n, phase, include_negative_m, iwsqn, salt) ==
  [node \in 1..s_ndim(t) |-> NodeHarmonics(t, node, n, phase, include_negative_m, iwsqn, salt)]

\* ------------------------------------------------------------ expand_dims
MoveAxisSelfFirst(t, node) ==
  LET bt == branching_types(t, node) IN
  IF bt = "A" THEN <<node>>
  ELSE IF bt = "B" THEN <<node, get_child(t, node, "sin")>>
  ELSE IF bt = "BP" THEN <<node, get_child(t, node, "cos")>>
  ELSE <<node, get_child(t, node, "cos"), get_child(t, node, "sin")>>

\* moveaxis: the slot in c.s_nodes of each axis of the node's tensor
MoveAxis(t, node) ==
  LET bt == branching_types(t, node) IN
  IF bt = "A" THEN <<node>>
  ELSE IF bt = "B" THEN <<get_child(t, node, "sin"), node>>
  ELSE IF bt = "BP" THEN <<get_child(t, node, "cos"), node>>
  ELSE <<get_child(t, node, "cos"), get_child(t, node, "sin"), node>>

_expand_dim_harmoncis(t, node, harmonics) ==
  LET moveaxis == MoveAxis(t, node)
      shape == [d \in 1..s_ndim(t) |->
                  IF \E a \in 1..Len(moveaxis) : moveaxis[a] = d
                  THEN harmonics.shape[CHOOSE a \in 1..Len(moveaxis) : moveaxis[a] = d]
                  ELSE 1]
  IN [shape |-> shape,
      data |-> Buffer([k \in 1..Size(shape) |->
                  LET idx == Unravel(k - 1, shape)
                  IN harmonics.data[1 + Ravel([a \in 1..Len(moveaxis) |-> idx[moveaxis[a]]],
                                              harmonics.shape)]])]

expand_dims_harmonics(t, harmonics) ==
  [node \in 1..s_ndim(t) |-> _expand_dim_harmoncis(t, node, harmonics[node])]

\* ------------------------------------------------------------------ concat
RECURSIVE ProdTensors(_, _, _)
ProdTensors(harmonics, node, acc) ==
  IF node > Len(harmonics) THEN acc
  ELSE ProdTensors(harmonics, node + 1, Elementwise("Times", acc, harmonics[node]))

\* concat_harmonics on a non-empty mapping
concat_harmonics(t, harmonics) ==
  LET shape == BroadcastAll([node \in 1..s_ndim(t) |-> harmonics[node].shape], 1,
                            [d \in 1..s_ndim(t) |-> 1])
  IN IF shape = ShapeError THEN NoTensor
     ELSE ProdTensors(harmonics, 1, [shape |-> [d \in 1..s_ndim(t) |-> 1], data |-> <<1>>])

\* ---------------------------------------------------------------- facade
ConfigErrorWithoutFlattenCheck(iwsqn, expand_dims, concat, flatten) ==
  IF iwsqn /\ expand_dims
  THEN "expand_dims must be False if index_with_surrogate_quantum_number is True."
  ELSE IF concat /\ ~expand_dims THEN "expand_dims must be True if concat is True."
  ELSE "none"

\* the configuration checks of harmonics(), in the order of the code
ConfigError(iwsqn, expand_dims, concat, flatten) ==
  IF iwsqn /\ expand_dims
  THEN "expand_dims must be False if index_with_surrogate_quantum_number is True."
  ELSE IF concat /\ ~expand_dims THEN "expand_dims must be True if concat is True."
  ELSE IF flatten /\ ~expand_dims THEN "expand_dims must be True if flatten is True."
  ELSE "none"

NoH == [config_error |-> "none", err |-> "none", kind |-> "none",
        nodes |-> << >>, joint |-> NoTensor, flat |-> << >>, stages |-> << >>]

StagesRunEvaluatingFirst(config_error, expand_dims, concat, flatten, failed) ==
  <<"_harmonics", "config">>
    \o (IF config_error = "none" /\ expand_dims THEN <<"expand_dims_harmonics">> ELSE << >>)
    \o (IF config_error = "none" /\ concat THEN <<"concat_harmonics">> ELSE << >>)
    \o (IF config_error = "none" /\ flatten /\ failed # "concat_harmonics"
        THEN <<"flatten_harmonics">> ELSE << >>)

\* the stages harmonics() enters, in the order of its statements: the
\* configuration checks, _harmonics (one evaluator call per node), then
\* expand_dims_harmonics, concat_harmonics and flatten_harmonics as configured;
\* a stage that raises (failed) ends the call
StagesRun(config_error, expand_dims, concat, flatten, failed) ==
  IF config_error # "none" THEN <<"config">>
  ELSE <<"config", "_harmonics">>
         \o (IF expand_dims THEN <<"expand_dims_harmonics">> ELSE << >>)
         \o (IF concat THEN <<"concat_harmonics">> ELSE << >>)
         \o (IF flatten /\ failed # "concat_harmonics" THEN <<"flatten_harmonics">> ELSE << >>)

\* {k: flatten_harmonics(c, v) for k, v in result.items()}
FlattenEach(t, nodes) == [node \in 1..Len(nodes) |-> flatten_harmonics(t, nodes[node], None, None)]
FirstError(rs) ==
  IF \A i \in 1..Len(rs) : rs[i].err = "none" THEN "none"
  ELSE rs[CHOOSE i \in 1..Len(rs) : rs[i].err # "none" /\ \A j \in 1..(i - 1) : rs[j].err = "none"].err

\* the value harmonics returns, or the exception it raises, once every stage's
\* result is at hand (a stage's result is looked at only if the stage runs)
harmonics_return(t, config_error, expand_dims, concat, flatten, ns_ok, expanded, joint, flattened, each) ==
  LET concat_raises == concat /\ ((s_ndim(t) = 0 /\ ~ns_ok) \/ joint = NoTensor)
      out ==
        IF config_error # "none"
        THEN [NoH EXCEPT !.config_error = config_error, !.err = "ValueError"]
        ELSE IF concat
        THEN IF s_ndim(t) = 0 /\ ~ns_ok THEN [NoH EXCEPT !.err = "TypeError"]
             ELSE IF joint = NoTensor THEN [NoH EXCEPT !.err = "RuntimeError"]
             ELSE IF ~flatten THEN [NoH EXCEPT !.kind = "array", !.joint = joint]
             ELSE IF flattened.err # "none" THEN [NoH EXCEPT !.err = flattened.err]
             ELSE [NoH EXCEPT !.kind = "flat", !.flat = flattened.flat]
        ELSE IF ~flatten THEN [NoH EXCEPT !.kind = "mapping", !.nodes = expanded]
        ELSE IF FirstError(each) # "none" THEN [NoH EXCEPT !.err = FirstError(each)]
        ELSE [NoH EXCEPT !.kind = "mapping",
                         !.nodes = [node \in 1..Len(each) |->
                                      [shape |-> <<Len(each[node].flat)>>, data |-> each[node].flat]]]
      failed == IF out.err = "none" \/ config_error # "none" THEN "none"
                ELSE IF concat_raises THEN "concat_harmonics"
                ELSE "flatten_harmonics"
  IN [out EXCEPT !.stages = StagesRun(config_error, expand_dims, concat, flatten, failed)]

\* `if flatten:` flatten_harmonics of the joint array, or of each node's array
harmonics_flatten(t, config_error, expand_dims, concat, flatten, ns_ok, expanded, joint) ==
  harmonics_return(t, config_error, expand_dims, concat, flatten, ns_ok, expanded, joint,
                   flatten_harmonics(t, joint, None, None), FlattenEach(t, expanded))

\* `if concat:` concat_harmonics of the expanded arrays
harmonics_concat(t, config_error, expand_dims, concat, flatten, ns_ok, expanded) ==
  harmonics_flatten(t, config_error, expand_dims, concat, flatten, ns_ok, expanded,
                    IF s_ndim(t) = 0 THEN [shape |-> << >>, data |-> <<1>>]
                    ELSE concat_harmonics(t, expanded))

\* `if expand_dims:` expand_dims_harmonics of the evaluated arrays
harmonics_expand(t, config_error, expand_dims, concat, flatten, ns_ok, evaluated) ==
  harmonics_concat(t, config_error, expand_dims, concat, flatten, ns_ok,
                   IF expand_dims THEN expand_dims_harmonics(t, evaluated) ELSE evaluated)

\* the checks of the configuration, then _harmonics
harmonics_checked(t, n, phase, include_negative_m, iwsqn, expand_dims, concat, flatten, salt, ns_ok) ==
  harmonics_expand(t, ConfigError(iwsqn, expand_dims, concat, flatten), expand_dims, concat, flatten,
                   ns_ok, _harmonics(t, n, phase, include_negative_m, iwsqn, salt))

\* harmonics(c, spherical, n_end=n, phase=phase, include_negative_m=..., ...);
\* ns_ok: whether array_namespace() accepts the empty mapping of a tree without nodes
harmonics(t, n, phase, include_negative_m, iwsqn, expand_dims, concat, flatten_arg, salt, ns_ok) ==
  harmonics_checked(t, n, phase, include_negative_m, iwsqn, expand_dims, concat,
                    IF flatten_arg = None THEN concat ELSE flatten_arg[1], salt, ns_ok)

\* ------------------------------------------------------- translation (gumerov)
\* symbolic non-zero entries of translational_coefficients(...).T, the table in
\* the Condon-Shortley convention
CoefTable(rows, cols, salt) ==
  [i \in 1..rows |-> [j \in 1..cols |-> salt + (i - 1) * cols + j]]

translation_sign_swapped(phase, m, m_add) ==
  IF phase = 0 THEN minus_1_power(m + m_add)
  ELSE IF phase = 2
  THEN minus_1_power((Abs(m) - m) \div 2 + (Abs(m_add) - m_add) \div 2)
  ELSE minus_1_power((Abs(m) + m) \div 2 + (Abs(m_add) + m_add) \div 2)

\* the factor `result *= minus_1_power(...)` for phase 0, NEGATIVE_LEGENDRE and
\* NEGATIVE_LEGENDRE | CONDON_SHORTLEY
translation_sign(phase, m, m_add) ==
  IF phase = 0 THEN minus_1_power(m + m_add)
  ELSE IF phase = 2
  THEN minus_1_power((Abs(m) + m) \div 2 + (Abs(m_add) + m_add) \div 2)
  ELSE minus_1_power((Abs(m) - m) \div 2 + (Abs(m_add) - m_add) \div 2)

\* the table multiplied entrywise by the sign of the orders m[:, None] and
\* m_add[None, :] (index arrays of a single entry broadcast)
translation_signed(n, n_add, phase, result, m, m_add) ==
  IF phase = 1 THEN [err |-> "none", out |-> result]
  ELSE IF m.err # "none" THEN [err |-> m.err, out |-> << >>]
  ELSE IF m_add.err # "none" THEN [err |-> m_add.err, out |-> << >>]
  ELSE IF ~(Len(m.flat) \in {1, n * n}) \/ ~(Len(m_add.flat) \in {1, n_add * n_add})
  THEN [err |-> "ValueError", out |-> << >>]
  ELSE [err |-> "none",
        out |-> [i \in 1..(n * n) |-> [j \in 1..(n_add * n_add) |->
                   result[i][j] * translation_sign(phase,
                                    IF Len(m.flat) = 1 THEN m.flat[1] ELSE m.flat[i],
                                    IF Len(m_add.flat) = 1 THEN m_add.flat[1] ELSE m_add.flat[j])]]]

\* harmonics_translation_coef(c, spherical, n_end=n, n_end_add=n_add,
\* phase=phase, method="gumerov") on the tree "ba"
harmonics_translation_coef(n, n_add, phase, salt) ==
  translation_signed(n, n_add, phase, CoefTable(n * n, n_add * n_add, salt),
                     index_array_harmonics("ba", get_child("ba", 1, "sin"), n, TRUE),
                     index_array_harmonics("ba", get_child("ba", 1, "sin"), n_add, TRUE))

\* ------------------------------------------------------------ expand_evaluate
RECURSIVE SumProduct(_, _, _)
SumProduct(Y, expansion, k) ==
  LET len == IF Len(Y) > Len(expansion) THEN Len(Y) ELSE Len(expansion)
      y == IF Len(Y) = 1 THEN Y[1] ELSE Y[k]
      e == IF Len(expansion) = 1 THEN expansion[1] ELSE expansion[k]
  IN IF k > len \/ Len(Y) = 0 \/ Len(expansion) = 0 THEN 0
     ELSE y * e + SumProduct(Y, expansion, k + 1)

\* xp.sum(Y * expansion, axis=-1) of the flattened harmonics Y
expand_evaluate_sum(expansion, has_r, Y) ==
  IF has_r THEN [err |-> "ValueError", kind |-> "none", value |-> 0]
  ELSE IF Y.err # "none" THEN [err |-> Y.err, kind |-> "none", value |-> 0]
  ELSE IF broadcast_shapes(<<Len(Y.flat)>>, <<Len(expansion)>>) = ShapeError
  THEN [err |-> "ValueError", kind |-> "none", value |-> 0]
  ELSE [err |-> "none", kind |-> "array", value |-> SumProduct(Y.flat, expansion, 1)]

\* expand_evaluate on a flattened array, from the point where the inference
\* has returned n: Y = harmonics(..., n_end=n, expand_dims=True, concat=True,
\* flatten=True), then xp.sum(Y * expansion, axis=-1)
expand_evaluate(t, expansion, n, phase, has_r, salt, ns_ok) ==
  expand_evaluate_sum(expansion, has_r,
                      harmonics(t, n, phase, TRUE, FALSE, TRUE, TRUE, Some(TRUE), salt, ns_ok))

\* ------------------------------------------------------------------- state
VARIABLES
  pc,      \* "idle", "joint", "flat", "flattened", "loop", "unflattened", "assumed", "raised"
  c,       \* the coordinate tree of the current input
  n_end,   \* the caller's configuration the input was built for
  inm,
  orig,    \* the caller's input: a joint tensor or a flattened array
  joint,   \* the current joint tensor (input or result of unflatten)
  flat,    \* the current flattened array (input or result of flatten)
  mask,    \* the mask built by the last flatten / unflatten
  call,    \* the arguments of the call in progress or last made
  trail,   \* the flatten / unflatten calls made on the input so far
  loop_n,  \* n_end of the search loop of the flatten=True inference
  res,     \* the pair returned by the inference
  err,     \* the exception raised, "none" if none
  cfg,     \* the arguments of the last harmonics() call
  h,       \* what that call returned or raised
  ev,      \* the last direct call of an evaluator: its arguments and its result
  dim,     \* the last call of the dimension formulas: its arguments and results
  ee,      \* the last call of expand_evaluate: its arguments and its result
  ix,      \* the last call of an index-array entry point: which one and its result
  tr       \* the last call of harmonics_translation_coef: its arguments and its result

vars == <<pc, c, n_end, inm, orig, joint, flat, mask, call, trail, loop_n, res, err, cfg, h, ev, dim, ee, ix, tr>>

LoopCap == MaxSize + MaxNEnd + 2

NoCall == [op |-> "none", n_end_arg |-> None, inm_arg |-> None, fill |-> None]
NoRes == <<-1, FALSE>>
NoCfg == [phase |-> 0, iwsqn |-> FALSE, expand_dims |-> TRUE, concat |-> TRUE,
          flatten_arg |-> None, salt |-> 0]

NoEv == [kind |-> "none", n_end |-> 0, iwsqn |-> FALSE, alpha_signed |-> FALSE,
         beta_signed |-> FALSE, fill_value |-> 0, salt |-> 0, out |-> NoTensor]

NoDim == [n |-> 0, c_ndim |-> 0, eq |-> 0, le |-> 0]

NoIx == [entry |-> "none", node |-> 0, err |-> "none", nodes |-> << >>]

NoTr == [n_end |-> 0, n_end_add |-> 0, phase |-> 0, salt |-> 0, err |-> "none", out |-> << >>]

NoEe == [form |-> "none", phase |-> 0, salt |-> 0, has_r |-> FALSE, kind |-> "none", value |-> 0]

Labelled(shape, salt) == [shape |-> shape, data |-> Buffer([k \in 1..Size(shape) |-> salt + k])]

\* the joint trailing shape that (n_end, include_negative_m) produces
JointShape(t, n, b) == [node \in 1..s_ndim(t) |-> Len(IndexValues(t, node, n, b))]

FlatSizes(t) == (0..MaxSize) \cup {harm_n_ndim_le(n, c_ndim(t)) : n \in 0..MaxNEnd}

Init ==
  /\ pc = "idle" /\ c = "line" /\ n_end = 0 /\ inm = TRUE
  /\ orig = NoTensor /\ joint = NoTensor /\ flat = << >> /\ mask = NoTensor
  /\ call = NoCall /\ trail = << >> /\ loop_n = 0 /\ res = NoRes /\ err = "none"
  /\ cfg = NoCfg /\ h = NoH /\ ev = NoEv /\ dim = NoDim /\ ee = NoEe /\ ix = NoIx /\ tr = NoTr

\* the caller holds a joint tensor built for (t, n, b)
NewJoint(t, n, b, salt) ==
  /\ pc = "idle"
  /\ pc' = "joint" /\ c' = t /\ n_end' = n /\ inm' = b
  /\ joint' = Labelled(JointShape(t, n, b), salt)
  /\ orig' = joint'
  /\ flat' = << >> /\ mask' = NoTensor /\ call' = NoCall /\ trail' = << >>
  /\ loop_n' = 0 /\ res' = NoRes /\ err' = "none"
  /\ UNCHANGED <<cfg, h, ev, dim, ee, ix, tr>>

\* the caller holds a 1-D array of some length
NewFlat(t, size, salt) ==
  /\ pc = "idle"
  /\ pc' = "flat" /\ c' = t /\ n_end' = 0 /\ inm' = TRUE
  /\ flat' = [k \in 1..size |-> salt + k]
  /\ orig' = [shape |-> <<size>>, data |-> flat']
  /\ joint' = NoTensor /\ mask' = NoTensor /\ call' = NoCall /\ trail' = << >>
  /\ loop_n' = 0 /\ res' = NoRes /\ err' = "none"
  /\ UNCHANGED <<cfg, h, ev, dim, ee, ix, tr>>

\* flatten_harmonics(c, joint, n_end_arg, inm_arg): each argument is omitted or
\* the value the caller knows the tensor was built with
Flatten(n_arg, b_arg) ==
  /\ pc \in {"joint", "unflattened"}
  /\ Len(trail) < 2
  /\ n_arg \in {None, Some(IF pc = "joint" THEN n_end ELSE res[1])}
  /\ b_arg \in {None, Some(IF pc = "joint" THEN inm ELSE call.inm_arg[1])}
  /\ LET r == flatten_harmonics(c, joint, n_arg, b_arg)
     IN /\ err' = r.err
        /\ pc' = IF r.err = "none" THEN "flattened" ELSE "raised"
        /\ flat' = r.flat
        /\ mask' = r.mask
        /\ res' = <<r.n_end, r.inm>>
  /\ call' = [op |-> "flatten", n_end_arg |-> n_arg, inm_arg |-> b_arg, fill |-> None]
  /\ trail' = Append(trail, call')
  /\ UNCHANGED <<c, n_end, inm, orig, joint, loop_n, cfg, h, ev, dim, ee, ix, tr>>

\* unflatten_harmonics(c, flat, include_negative_m=b) enters the search loop.
\* The signature is (c, harmonics, *, include_negative_m=True): a call that
\* passes a fill value as well names a parameter that does not exist and
\* raises TypeError before the body runs.
UnflattenCall(b, fill) ==
  /\ pc \in {"flat", "flattened"}
  /\ Len(trail) < 2
  /\ IF fill = None
     THEN pc' = "loop" /\ err' = err
     ELSE pc' = "raised" /\ err' = "TypeError"
  /\ loop_n' = 0
  /\ call' = [op |-> "unflatten", n_end_arg |-> None, inm_arg |-> Some(b), fill |-> fill]
  /\ trail' = Append(trail, call')
  /\ UNCHANGED <<c, n_end, inm, orig, joint, flat, mask, res, cfg, h, ev, dim, ee, ix, tr>>

\* assume_n_end_and_include_negative_m_from_harmonics(c, flat, flatten=True)
AssumeFlatCall ==
  /\ pc \in {"flat", "flattened"}
  /\ pc' = "loop" /\ loop_n' = 0
  /\ call' = [op |-> "assume", n_end_arg |-> None, inm_arg |-> None, fill |-> None]
  /\ UNCHANGED <<c, n_end, inm, orig, joint, flat, mask, trail, res, err, cfg, h, ev, dim, ee, ix, tr>>

size_current == harm_n_ndim_le(loop_n, c_ndim(c))

\* size_current == size: return n_end, True (and let unflatten go on)
LoopReturn ==
  /\ pc = "loop"
  /\ size_current = Len(flat)
  /\ res' = <<loop_n, TRUE>>
  /\ IF call.op = "assume"
     THEN /\ pc' = "assumed"
          /\ UNCHANGED <<joint, mask, err, ee>>
     ELSE IF call.op = "expand_evaluate"
     THEN \E ns_ok \in (IF s_ndim(c) = 0 THEN BOOLEAN ELSE {TRUE}) :
            \E r \in {expand_evaluate(c, flat, loop_n, ee.phase, ee.has_r, ee.salt, ns_ok)} :
               /\ err' = r.err
               /\ pc' = IF r.err = "none" THEN "expanded" ELSE "raised"
               /\ ee' = [ee EXCEPT !.kind = r.kind, !.value = r.value]
               /\ UNCHANGED <<joint, mask>>
     ELSE \E r \in {unflatten_harmonics(c, flat, loop_n, call.inm_arg[1])} :
             /\ err' = r.err
             /\ pc' = IF r.err = "none" THEN "unflattened" ELSE "raised"
             /\ joint' = r.result
             /\ mask' = r.mask
             /\ ee' = ee
  /\ UNCHANGED <<c, n_end, inm, orig, flat, call, trail, loop_n, cfg, h, ev, dim, ix, tr>>

\* size_current > size: raise ValueError
LoopRaise ==
  /\ pc = "loop"
  /\ size_current > Len(flat)
  /\ pc' = "raised" /\ err' = "ValueError"
  /\ UNCHANGED <<c, n_end, inm, orig, joint, flat, mask, call, trail, loop_n, res, cfg, h, ev, dim, ee, ix, tr>>

\* otherwise n_end += 1. n_end is unbounded in the code; the model counts it
\* exactly below LoopCap and keeps it within {LoopCap - 1, LoopCap} from there
\* on, where size_current no longer changes (LoopWindowExact).
LoopIncr ==
  /\ pc = "loop"
  /\ size_current < Len(flat)
  /\ loop_n <= LoopCap
  /\ loop_n' = IF loop_n < LoopCap THEN loop_n + 1 ELSE LoopCap - 1
  /\ UNCHANGED <<pc, c, n_end, inm, orig, joint, flat, mask, call, trail, res, err, cfg, h, ev, dim, ee, ix, tr>>

\* assume_n_end_and_include_negative_m_from_harmonics(c, joint.shape, flatten=False)
AssumeUnflatCall ==
  /\ pc \in {"joint", "unflattened"}
  /\ pc' = "assumed"
  /\ res' = assume_unflattened(c, joint.shape)
  /\ call' = [op |-> "assume_shape", n_end_arg |-> None, inm_arg |-> None, fill |-> None]
  /\ UNCHANGED <<c, n_end, inm, orig, joint, flat, mask, trail, loop_n, err, cfg, h, ev, dim, ee, ix, tr>>

\* harmonics(c, spherical, n_end=n, phase=phase, include_negative_m=b, ...)
Harmonics(t, n, b, phase, iwsqn, expand_dims, concat, flatten_arg, salt, ns_ok) ==
  /\ pc = "idle"
  /\ pc' = "harmonics" /\ c' = t /\ n_end' = n /\ inm' = b
  /\ cfg' = [phase |-> phase, iwsqn |-> iwsqn, expand_dims |-> expand_dims,
             concat |-> concat, flatten_arg |-> flatten_arg, salt |-> salt]
  /\ h' = harmonics(t, n, phase, b, iwsqn, expand_dims, concat, flatten_arg, salt, ns_ok)
  /\ err' = h'.err
  /\ UNCHANGED <<orig, joint, flat, mask, call, trail, loop_n, res, ev, dim, ee, ix, tr>>

\* a direct call of type_b, type_bdash or type_c with n_end = n; a child flag is
\* is_alpha/is_beta_type_a_and_include_negative_m (type_b has only beta,
\* type_bdash only alpha); fill is the fill_value argument, 0 when omitted
Evaluator(kind, n, iwsqn, alpha_signed, beta_signed, fill, salt) ==
  /\ pc = "idle"
  /\ kind = "type_b" => ~alpha_signed
  /\ kind = "type_bdash" => ~beta_signed
  /\ pc' = "evaluated"
  /\ ev' = [kind |-> kind, n_end |-> n, iwsqn |-> iwsqn, alpha_signed |-> alpha_signed,
            beta_signed |-> beta_signed, fill_value |-> fill, salt |-> salt,
            out |-> IF kind = "type_b" THEN type_b(n, iwsqn, beta_signed, fill, salt)
                    ELSE IF kind = "type_bdash" THEN type_bdash(n, iwsqn, alpha_signed, fill, salt)
                    ELSE type_c(n, iwsqn, alpha_signed, beta_signed, fill, salt)]
  /\ UNCHANGED <<c, n_end, inm, orig, joint, flat, mask, call, trail, loop_n, res, err, cfg, h, dim, ee, ix, tr>>

\* expand_cut(c, flat, n) on the flattened array the caller holds
ExpandCut(n) ==
  /\ pc = "flattened"
  /\ pc' = "cut"
  /\ flat' = expand_cut(c, flat, n)
  /\ call' = [op |-> "expand_cut", n_end_arg |-> Some(n), inm_arg |-> None, fill |-> None]
  /\ UNCHANGED <<c, n_end, inm, orig, joint, mask, trail, loop_n, res, err, cfg, h, ev, dim, ee, ix, tr>>

\* expand_evaluate(c, flat, spherical, phase=phase) on the 1-D array the caller
\* holds: the inference (flatten=True) runs first
ExpandEvaluateArray(phase, has_r, salt) ==
  /\ pc = "flat"
  /\ pc' = "loop" /\ loop_n' = 0
  /\ call' = [op |-> "expand_evaluate", n_end_arg |-> None, inm_arg |-> None, fill |-> None]
  /\ ee' = [NoEe EXCEPT !.form = "array", !.phase = phase, !.has_r = has_r, !.salt = salt]
  /\ UNCHANGED <<c, n_end, inm, orig, joint, flat, mask, trail, res, err, cfg, h, ev, dim, ix, tr>>

\* expand_evaluate(c, mapping, spherical, phase=phase) on the per-node mapping
\* that harmonics(expand_dims=False, concat=False, flatten=False) returned:
\* array_namespace(*[expansion[k] for k in c.s_nodes]), then the inference is
\* called with its default flatten=True and raises NotImplementedError on a
\* Mapping
ExpandEvaluateMapping(phase, ns_ok) ==
  /\ pc = "harmonics" /\ h.kind = "mapping" /\ ~cfg.expand_dims /\ ~cfg.iwsqn
  /\ cfg.flatten_arg # Some(TRUE)
  /\ s_ndim(c) >= 1 => ns_ok
  /\ pc' = "raised"
  /\ err' = IF ns_ok THEN "NotImplementedError" ELSE "TypeError"
  /\ call' = [op |-> "expand_evaluate", n_end_arg |-> None, inm_arg |-> None, fill |-> None]
  /\ ee' = [NoEe EXCEPT !.form = "mapping", !.phase = phase]
  /\ UNCHANGED <<c, n_end, inm, orig, joint, flat, mask, trail, loop_n, res, cfg, h, ev, dim, ix, tr>>

\* index_array_harmonics_all(c, n_end=n, include_negative_m=b, expand_dims=True,
\* as_array=False, flatten=True): the dict comprehension raises at the first
\* node whose flatten_harmonics raises
IndexArrayAll(t, n, b) ==
  /\ pc = "idle"
  /\ pc' = "indexed" /\ c' = t /\ n_end' = n /\ inm' = b
  /\ LET rs == index_array_harmonics_all(t, n, b)
     IN /\ err' = FirstError(rs)
        /\ ix' = [entry |-> "all", node |-> 0, err |-> FirstError(rs),
                  nodes |-> IF FirstError(rs) = "none"
                            THEN [node \in 1..Len(rs) |-> rs[node].flat] ELSE << >>]
  /\ UNCHANGED <<orig, joint, flat, mask, call, trail, loop_n, res, cfg, h, ev, dim, ee, tr>>

\* index_array_harmonics(c, node, n_end=n, include_negative_m=b, expand_dims=True,
\* flatten=True)
IndexArray(t, node, n, b) ==
  /\ pc = "idle"
  /\ node \in 1..s_ndim(t)
  /\ pc' = "indexed" /\ c' = t /\ n_end' = n /\ inm' = b
  /\ LET r == index_array_harmonics(t, node, n, b)
     IN /\ err' = r.err
        /\ ix' = [entry |-> "node", node |-> node, err |-> r.err,
                  nodes |-> IF r.err = "none" THEN <<r.flat>> ELSE << >>]
  /\ UNCHANGED <<orig, joint, flat, mask, call, trail, loop_n, res, cfg, h, ev, dim, ee, tr>>

\* harmonics_translation_coef(create_spherical(), ..., n_end=n, n_end_add=n_add,
\* phase=phase, method="gumerov")
TranslationCoef(n, n_add, phase, salt) ==
  /\ pc = "idle"
  /\ pc' = "translated" /\ c' = "ba"
  /\ LET r == harmonics_translation_coef(n, n_add, phase, salt)
     IN /\ err' = r.err
        /\ tr' = [n_end |-> n, n_end_add |-> n_add, phase |-> phase, salt |-> salt,
                  err |-> r.err, out |-> r.out]
  /\ UNCHANGED <<n_end, inm, orig, joint, flat, mask, call, trail, loop_n, res, cfg, h, ev, dim, ee, ix>>

\* harm_n_ndim_eq(n, c_ndim=d) and harm_n_ndim_le(n, c_ndim=d)
HarmNDim(n, d) ==
  /\ pc = "idle"
  /\ pc' = "counted"
  /\ dim' = [n |-> n, c_ndim |-> d, eq |-> harm_n_ndim_eq(n, d), le |-> harm_n_ndim_le(n, d)]
  /\ UNCHANGED <<c, n_end, inm, orig, joint, flat, mask, call, trail, loop_n, res, err, cfg, h, ev, ee, ix, tr>>

\* the entry points are called one at a time: arguments for a new call are drawn
\* only while no call is in progress
Callable(S) == IF pc = "idle" THEN S ELSE {}

Next ==
  \/ \E t \in Callable(TreeNames), n \in 0..MaxNEnd, b \in BOOLEAN, salt \in Salts : NewJoint(t, n, b, salt)
  \/ \E t \in Callable(TreeNames), salt \in Salts : \E size \in FlatSizes(t) : NewFlat(t, size, salt)
  \/ \E n_arg \in {None} \cup {Some(n) : n \in 0..MaxNEnd},
        b_arg \in {None} \cup {Some(b) : b \in BOOLEAN} : Flatten(n_arg, b_arg)
  \/ \E b \in BOOLEAN, fill \in Fills : UnflattenCall(b, fill)
  \/ AssumeFlatCall
  \/ LoopReturn
  \/ LoopRaise
  \/ LoopIncr
  \/ AssumeUnflatCall
  \/ \E t \in Callable(TreeNames), n \in 1..MaxNEnd, b \in BOOLEAN, phase \in Phases, salt \in PointSalts,
        iwsqn \in BOOLEAN, expand_dims \in BOOLEAN, concat \in BOOLEAN,
        flatten_arg \in {None, Some(TRUE), Some(FALSE)} :
     \E ns_ok \in (IF s_ndim(t) = 0 THEN BOOLEAN ELSE {TRUE}) :
        Harmonics(t, n, b, phase, iwsqn, expand_dims, concat, flatten_arg, salt, ns_ok)
  \/ \E kind \in Callable({"type_b", "type_bdash", "type_c"}), n \in 0..MaxNEnd, iwsqn \in BOOLEAN,
        alpha_signed \in BOOLEAN, beta_signed \in BOOLEAN, fill \in FillValues, salt \in Salts :
        Evaluator(kind, n, iwsqn, alpha_signed, beta_signed, fill, salt)
  \/ \E n \in Callable(0..MaxDegree), d \in 1..MaxCNdim : HarmNDim(n, d)
  \/ \E n \in 0..MaxNEnd : ExpandCut(n)
  \/ \E phase \in Phases, has_r \in BOOLEAN, salt \in PointSalts :
       ExpandEvaluateArray(phase, has_r, salt)
  \/ \E phase \in Phases, ns_ok \in BOOLEAN : ExpandEvaluateMapping(phase, ns_ok)
  \/ \E t \in Callable(TreeNames), n \in 0..MaxNEnd, b \in BOOLEAN : IndexArrayAll(t, n, b)
  \/ \E t \in Callable(TreeNames), n \in 0..MaxNEnd, b \in BOOLEAN :
       \E node \in 1..s_ndim(t) : IndexArray(t, node, n, b)
  \/ \E n \in Callable(0..MaxNEnd), n_add \in 0..MaxNEnd, phase \in Phases, salt \in PointSalts :
       TranslationCoef(n, n_add, phase, salt)

Spec == Init /\ [][Next]_vars
\* one iteration of the search loop inside a call of the inference
InferenceStep == call.op = "assume" /\ (LoopReturn \/ LoopRaise \/ LoopIncr)
\* the search loop is a plain while loop: an iteration that can run does run
FairSpec == Spec /\ WF_vars(InferenceStep)

\* ------------------------------------------------------------- properties
\* the window of LoopIncr is entered only where the dimension has stopped
\* growing, so that size_current is the code's value at every iteration
LoopWindowExact ==
  (pc = "loop" /\ loop_n >= LoopCap - 1)
    => /\ c_ndim(c) = 1
       /\ harm_n_ndim_le(LoopCap - 1, 1) = harm_n_ndim_le(LoopCap, 1)
       /\ harm_n_ndim_le(LoopCap, 1) = harm_n_ndim_le(LoopCap + 1, 1)

\* the physical quantum number held at position pos of a node's axis
QuantumNumber(t, node, n, b, pos) ==
  IF IsTypeA(t, node) /\ b /\ pos >= n THEN pos - (2 * n - 1) ELSE pos

\* the angular-momentum coupling rule at the joint index idx (0-based positions)
CouplingRule(t, n, b, idx) ==
  LET q(v) == QuantumNumber(t, v, n, b, idx[v])
  IN \A node \in 1..s_ndim(t) :
       /\ branching_types(t, node) = "B" => Abs(q(get_child(t, node, "sin"))) <= q(node)
       /\ branching_types(t, node) = "BP" => Abs(q(get_child(t, node, "cos"))) <= q(node)
       /\ branching_types(t, node) = "C" =>
            LET v == q(node) - Abs(q(get_child(t, node, "cos"))) - Abs(q(get_child(t, node, "sin")))
            IN v >= 0 /\ v % 2 = 0

\* the joint index space of (n, b): 2n-1 positions on a type-A axis when b, else n
IndexSpace(t, n, b) ==
  [node \in 1..s_ndim(t) |-> IF IsTypeA(t, node) /\ b /\ n > 0 THEN 2 * n - 1 ELSE n]

\* the parameters the last flatten / unflatten built its mask with
MaskParams == IF call.op = "flatten" THEN res ELSE <<res[1], call.inm_arg[1]>>

FromJoint == Len(trail) >= 1 /\ trail[1].op = "flatten"
FromFlat == Len(trail) >= 1 /\ trail[1].op = "unflatten"
Dimensions(t) == {harm_n_ndim_le(n, c_ndim(t)) : n \in 0..(MaxNEnd + 1)}

\* C1: for every tree and n_end >= 0 (include_negative_m=True) the mask has
\* harm_n_ndim_le(n_end, c_ndim) True positions, which is also the length of
\* the flattened last axis.
C1_DimensionLaw ==
  (pc = "flattened" /\ Len(trail) = 1 /\ FromJoint /\ inm)
    => /\ CountTrue(mask.data) = harm_n_ndim_le(n_end, c_ndim(c))
       /\ Len(flat) = harm_n_ndim_le(n_end, c_ndim(c))

\* C2: for n_end >= 1 and a joint tensor x of (n_end, True), flatten never
\* raises, and unflatten(flatten(x)) has the shape of x and equals x wherever
\* the validity mask is True.
C2_RoundTripLeft ==
  (FromJoint /\ inm /\ n_end >= 1)
    => /\ Len(trail) = 1 => pc # "raised"
       /\ (Len(trail) = 2 /\ trail[2].inm_arg = Some(TRUE) /\ trail[2].fill = None)
            => /\ pc # "raised"
               /\ pc = "loop" => loop_n <= n_end
               /\ pc = "unflattened"
                    => /\ joint.shape = orig.shape
                       /\ \A k \in 1..Size(orig.shape) :
                            CouplingRule(c, n_end, TRUE, Unravel(k - 1, orig.shape))
                              => joint.data[k] = orig.data[k]
C2_Witness ==
  /\ pc = "unflattened" /\ Len(trail) = 2 /\ FromJoint /\ inm /\ trail[2].inm_arg = Some(TRUE)
  /\ c = "ba" /\ n_end = 3 /\ joint # orig /\ Len(flat) = 9

\* C3: for every tree and every y of length harm_n_ndim_le(n_end, c_ndim),
\* unflatten accepts y and flatten(unflatten(y)) is y again.
C3_RoundTripRight ==
  (FromFlat /\ trail[1].inm_arg = Some(TRUE) /\ trail[1].fill = None
     /\ Len(orig.data) \in Dimensions(c))
    => /\ pc # "raised"
       /\ (Len(trail) = 2 /\ pc = "flattened") => flat = orig.data

\* C4: the mask has the full joint shape and is True at a joint index exactly
\* when the quantum numbers there satisfy the coupling rule of every B, B'
\* and C node.
C4_MaskRule ==
  (pc \in {"flattened", "unflattened"})
    => LET n == MaskParams[1]
           b == MaskParams[2]
       IN /\ mask.shape = IndexSpace(c, n, b)
          /\ \A k \in 1..Size(mask.shape) :
               mask.data[k] = CouplingRule(c, n, b, Unravel(k - 1, mask.shape))
C4_Witness ==
  /\ pc = "flattened" /\ c = "caa" /\ MaskParams = <<3, TRUE>>
  /\ CountTrue(mask.data) = 14 /\ Len(mask.data) = 75

\* lexicographic order of two joint indices, first node axis most significant
LexLess(i1, i2) ==
  \E d \in 1..Len(i1) : i1[d] < i2[d] /\ \A e \in 1..(d - 1) : i1[e] = i2[e]

\* the position in the input of the entry that carries label v
PositionOf(v) == CHOOSE k \in 1..Len(orig.data) : orig.data[k] = v

\* C5: flatten returns exactly the input entries at the True positions of the
\* mask, each once, in row-major order (last node axis fastest), and no entry
\* from a False position.
C5_CanonicalEnumeration ==
  (pc = "flattened" /\ Len(trail) = 1 /\ FromJoint)
    => LET valid == {k \in 1..Size(orig.shape) :
                       CouplingRule(c, n_end, inm, Unravel(k - 1, orig.shape))}
       IN /\ {flat[j] : j \in 1..Len(flat)} = {orig.data[k] : k \in valid}
          /\ Len(flat) = Cardinality(valid)
          /\ \A j \in 1..(Len(flat) - 1) :
               LexLess(Unravel(PositionOf(flat[j]) - 1, orig.shape),
                       Unravel(PositionOf(flat[j + 1]) - 1, orig.shape))
C5_Witness ==
  /\ pc = "flattened" /\ Len(trail) = 1 /\ FromJoint
  /\ c = "bba" /\ n_end = 3 /\ inm /\ Len(flat) = 14 /\ Len(orig.data) = 45

\* C6: for every tree, n_end >= 1 and both values of include_negative_m,
\* harmonics(..., concat=True, flatten=True) returns exactly the entries of
\* harmonics(..., concat=True, flatten=False) at the True positions of the mask
\* built with the caller's own n_end and include_negative_m.
C6_SingleConfiguration ==
  (pc = "harmonics" /\ s_ndim(c) >= 1 /\ cfg.concat /\ cfg.expand_dims /\ ~cfg.iwsqn
     /\ cfg.flatten_arg = Some(TRUE))
    => LET unflattened == harmonics(c, n_end, cfg.phase, inm, FALSE, TRUE, TRUE,
                                    Some(FALSE), cfg.salt, TRUE)
           own_mask == flatten_mask_harmonics(c, n_end, inm)
       IN /\ h.err = "none"
          /\ h.kind = "flat"
          /\ h.flat = SelectByMask(unflattened.joint.data, own_mask.data, 1)

\* C7: for every tree with at least one angular node, n_end >= 2 and both
\* values of include_negative_m, the inference with flatten=False applied to
\* the joint shape of (n_end, include_negative_m) returns exactly
\* (n_end, include_negative_m).
C7_InferenceFromShape ==
  (pc = "assumed" /\ call.op = "assume_shape" /\ Len(trail) = 0
     /\ s_ndim(c) >= 1 /\ n_end >= 2)
    => res = <<n_end, inm>>

\* some n_end has the dimension of the flattened array's length
SizeMatches == \E n \in 0..(Len(flat) + 2) : harm_n_ndim_le(n, c_ndim(c)) = Len(flat)

\* C8: the inference with flatten=True raises ValueError whenever the length
\* of the last axis is harm_n_ndim_le(n, c_ndim) for no n, and returns (n, True)
\* with harm_n_ndim_le(n, c_ndim) equal to the length otherwise: every call
\* ends in one of the two ways, and never returns an n_end of another dimension.
C8_InferenceOutcome ==
  /\ []((pc = "assumed" /\ call.op = "assume")
          => (SizeMatches /\ res[2] /\ harm_n_ndim_le(res[1], c_ndim(c)) = Len(flat)))
  /\ []((pc = "raised" /\ call.op = "assume") => (~SizeMatches /\ err = "ValueError"))
  /\ ((pc = "loop" /\ call.op = "assume") ~> (pc \in {"assumed", "raised"}))

\* the value of flatten that harmonics() works with
FlattenFlag == IF cfg.flatten_arg = None THEN cfg.concat ELSE cfg.flatten_arg[1]

\* C9: with flatten defaulting to concat, harmonics raises a configuration
\* error (a ValueError) exactly when (index_with_surrogate_quantum_number and
\* expand_dims) or (concat and not expand_dims) or (flatten and not expand_dims).
C9_ConfigurationErrors ==
  (pc = "harmonics")
    => /\ (h.config_error # "none")
            <=> \/ cfg.iwsqn /\ cfg.expand_dims
                \/ cfg.concat /\ ~cfg.expand_dims
                \/ FlattenFlag /\ ~cfg.expand_dims
       /\ (h.config_error # "none") => (err = "ValueError" /\ h.kind = "none")
C9_Witness ==
  /\ pc = "harmonics" /\ ~cfg.concat /\ ~cfg.iwsqn /\ ~cfg.expand_dims
  /\ cfg.flatten_arg = Some(TRUE)
  /\ h.config_error = "expand_dims must be True if flatten is True."
  /\ err = "ValueError"

\* the number of True positions among the first k positions of a mask
RECURSIVE RankIn(_, _)
RankIn(m, k) == IF k = 0 THEN 0 ELSE RankIn(m, k - 1) + (IF m[k] THEN 1 ELSE 0)

\* C10 as stated: unflatten_harmonics takes a caller-specified fill value and
\* every position outside the mask holds it.
C10_CallerFill ==
  (call.op = "unflatten" /\ call.fill # None)
    => /\ err # "TypeError"
       /\ pc = "unflattened"
            => \A k \in 1..Len(mask.data) : ~mask.data[k] => joint.data[k] = call.fill[1]

\* C10 amended: unflatten_harmonics takes no fill value; its result has the
\* joint shape of the mask, holds the flattened entries in order at the True
\* positions and 0 at every other position.
C10_UnflattenZeros ==
  (pc = "unflattened")
    => /\ call.fill = None
       /\ joint.shape = IndexSpace(c, res[1], call.inm_arg[1])
       /\ Len(joint.data) = Len(mask.data)
       /\ \A k \in 1..Len(mask.data) :
            joint.data[k] = IF mask.data[k] THEN flat[RankIn(mask.data, k)] ELSE 0
C10_Witness ==
  /\ pc = "unflattened" /\ c = "caa" /\ Len(flat) = 14 /\ res[1] = 3
  /\ call.inm_arg = Some(TRUE)
  /\ Cardinality({k \in 1..Len(joint.data) : joint.data[k] = 0}) = 61
  /\ \A j \in 1..Len(flat) : flat[j] # 0

\* C11: concat_harmonics on a tree with zero angular nodes (empty mapping)
\* returns the scalar constant 1 without raising.
C11_DegenerateAssembly ==
  (pc = "harmonics" /\ s_ndim(c) = 0 /\ cfg.concat /\ cfg.expand_dims /\ ~cfg.iwsqn
     /\ cfg.flatten_arg = Some(FALSE))
    => /\ h.err = "none"
       /\ h.kind = "array"
       /\ h.joint = [shape |-> << >>, data |-> <<1>>]

\* the per-node tensors exactly as the evaluators return them
RawEvaluators ==
  pc = "harmonics" /\ h.kind = "mapping" /\ ~cfg.expand_dims /\ ~FlattenFlag /\ ~cfg.iwsqn

\* C12: with include_negative_m=True the axis of type_a has length 2*n_end-1
\* and position j holds order j for j < n_end and j - (2*n_end-1) for
\* j >= n_end; with include_negative_m=False it is [0, ..., n_end-1]; the
\* type-A index array holds the same order at every position.
C12_SignedOrderLayout ==
  RawEvaluators
    => \A node \in 1..s_ndim(c) :
         IsTypeA(c, node)
           => LET x == h.nodes[node]
                  len == IF inm THEN 2 * n_end - 1 ELSE n_end
                  m(j) == IF inm /\ j >= n_end THEN j - (2 * n_end - 1) ELSE j
              IN /\ x.shape = <<len>>
                 /\ \A j \in 0..(len - 1) :
                      /\ Abs(x.data[j + 1]) = ExpValue(m(j), cfg.salt + 10 * node)
                      /\ index_array(c, node, n_end, inm).data[j + 1] = m(j)
C12_Witness ==
  /\ RawEvaluators /\ c = "ba" /\ n_end = 3 /\ inm
  /\ h.nodes[2].shape = <<5>>
  /\ Abs(h.nodes[2].data[4]) = ExpValue(-2, cfg.salt + 20)

\* the sign of the entry of a type-A tensor x that belongs to order m
SignOfOrder(x, m, n) ==
  LET v == x.data[IF m >= 0 THEN m + 1 ELSE 2 * n + m]
  IN IF v > 0 THEN 1 ELSE IF v < 0 THEN -1 ELSE 0

\* C13: for each of the 4 phases and every order m with -n_end < m < n_end the
\* sign s(m) that type_a applies is +1 or -1; (i) setting CONDON_SHORTLEY
\* multiplies s(m) by (-1)^m; (ii) s(-m) = s(m) when NEGATIVE_LEGENDRE is
\* unset and s(-m) = (-1)^m * s(m) when it is set.
C13_PhaseSignTable ==
  (RawEvaluators /\ inm)
    => \A node \in 1..s_ndim(c) :
         IsTypeA(c, node)
           => LET x == h.nodes[node]
                  s(m) == SignOfOrder(x, m, n_end)
                  parity(m) == IF m % 2 = 0 THEN 1 ELSE -1
                  without_cs == type_a(n_end, cfg.phase - 1, TRUE, cfg.salt + 10 * node)
              IN \A m \in (1 - n_end)..(n_end - 1) :
                   /\ s(m) \in {1, -1}
                   /\ CONDON_SHORTLEY(cfg.phase)
                        => s(m) = parity(m) * SignOfOrder(without_cs, m, n_end)
                   /\ ~NEGATIVE_LEGENDRE(cfg.phase) => s(-m) = s(m)
                   /\ NEGATIVE_LEGENDRE(cfg.phase) => s(-m) = parity(m) * s(m)
C13_Witness ==
  /\ RawEvaluators /\ inm /\ c = "a" /\ n_end = 3 /\ cfg.phase = 3
  /\ SignOfOrder(h.nodes[1], 1, 3) = -1
  /\ SignOfOrder(h.nodes[1], -1, 3) = 1
  /\ SignOfOrder(h.nodes[1], 2, 3) = 1

\* C14: with index_with_surrogate_quantum_number=False, type_b and type_bdash
\* return the trailing shape (n_end, n_end) and out[l_child, l] is
\* surrogate[l_child, l - l_child] when l >= l_child and fill_value (default 0)
\* when l < l_child, for every l_child, l in [0, n_end).
C14_TypeBReindexing ==
  (pc = "evaluated" /\ ev.kind \in {"type_b", "type_bdash"} /\ ~ev.iwsqn)
    => LET n == ev.n_end
           signed == ev.alpha_signed \/ ev.beta_signed
           surrogate == Surrogate(<<n, n>>, ev.salt)
       IN /\ ~signed => ev.out.shape = <<n, n>>
          /\ Len(ev.out.shape) = 2 /\ ev.out.shape[1] >= n /\ ev.out.shape[2] = n
          /\ \A l_child \in 0..(n - 1), l \in 0..(n - 1) :
               At(ev.out, <<l_child, l>>) =
                 IF l >= l_child THEN At(surrogate, <<l_child, l - l_child>>)
                 ELSE ev.fill_value
C14_Witness ==
  /\ pc = "evaluated" /\ ev.kind = "type_bdash" /\ ~ev.iwsqn /\ ~ev.alpha_signed
  /\ ev.n_end = 3 /\ ev.fill_value = 7
  /\ At(ev.out, <<2, 1>>) = 7
  /\ At(ev.out, <<1, 2>>) = At(Surrogate(<<3, 3>>, ev.salt), <<1, 1>>)

\* C15: with index_with_surrogate_quantum_number=False, type_c returns the
\* trailing shape (n_end, n_end, n_end) and out[l_cos, l_sin, l] is
\* surrogate[l_cos, l_sin, (l - l_cos - l_sin) / 2] for all l_cos, l_sin, l in
\* [0, n_end) with l - l_cos - l_sin even and >= 0, the surrogate order axis
\* having length (n_end + 1) // 2: no valid combination is cut off.
C15_TypeCReindexing ==
  (pc = "evaluated" /\ ev.kind = "type_c" /\ ~ev.iwsqn)
    => LET n == ev.n_end
           surrogate == Surrogate(<<n, n, (n + 1) \div 2>>, ev.salt)
       IN /\ (~ev.alpha_signed /\ ~ev.beta_signed) => ev.out.shape = <<n, n, n>>
          /\ Len(ev.out.shape) = 3
          /\ ev.out.shape[1] >= n /\ ev.out.shape[2] >= n /\ ev.out.shape[3] = n
          /\ \A l_cos \in 0..(n - 1), l_sin \in 0..(n - 1), l \in 0..(n - 1) :
               (l - l_cos - l_sin >= 0 /\ (l - l_cos - l_sin) % 2 = 0)
                 => /\ (l - l_cos - l_sin) \div 2 < surrogate.shape[3]
                    /\ At(ev.out, <<l_cos, l_sin, l>>) =
                         At(surrogate, <<l_cos, l_sin, (l - l_cos - l_sin) \div 2>>)
C15_Witness ==
  /\ pc = "evaluated" /\ ev.kind = "type_c" /\ ~ev.iwsqn
  /\ ~ev.alpha_signed /\ ~ev.beta_signed /\ ev.n_end = 3
  /\ ev.out.shape = <<3, 3, 3>>
  /\ At(ev.out, <<0, 0, 2>>) = At(Surrogate(<<3, 3, 2>>, ev.salt), <<0, 0, 1>>)
  /\ At(ev.out, <<1, 1, 2>>) = At(Surrogate(<<3, 3, 2>>, ev.salt), <<1, 1, 0>>)

\* the slots, in c.s_nodes, that the claim assigns to the axes of a node's tensor
ClaimedSlots(t, node) ==
  LET bt == branching_types(t, node) IN
  IF bt = "A" THEN <<node>>
  ELSE IF bt = "B" THEN <<get_child(t, node, "sin"), node>>
  ELSE IF bt = "BP" THEN <<get_child(t, node, "cos"), node>>
  ELSE <<get_child(t, node, "cos"), get_child(t, node, "sin"), node>>

\* C16: expand_dims_harmonics gives every node's tensor exactly c.s_ndim
\* trailing axes; a type-A node's axis sits in slot idx(node), a B / B' node's
\* (child, self) axes in slots idx(child), idx(node), a C node's (cos child,
\* sin child, self) axes in slots idx(cos child), idx(sin child), idx(node);
\* every other slot has length 1 and the values are those of the input.
C16_AxisPlacement ==
  (pc = "harmonics" /\ h.kind = "mapping" /\ cfg.expand_dims /\ ~FlattenFlag)
    => LET raw == _harmonics(c, n_end, cfg.phase, inm, FALSE, cfg.salt)
       IN /\ Len(h.nodes) = s_ndim(c)
          /\ \A node \in 1..s_ndim(c) :
               LET x == h.nodes[node]
                   slots == ClaimedSlots(c, node)
               IN /\ Len(x.shape) = s_ndim(c)
                  /\ Len(raw[node].shape) = Len(slots)
                  /\ \A a \in 1..Len(slots) : x.shape[slots[a]] = raw[node].shape[a]
                  /\ \A d \in 1..s_ndim(c) :
                       (\A a \in 1..Len(slots) : slots[a] # d) => x.shape[d] = 1
                  /\ \A k \in 1..Size(x.shape) :
                       LET idx == Unravel(k - 1, x.shape)
                       IN x.data[k] = At(raw[node], [a \in 1..Len(slots) |-> idx[slots[a]]])
C16_Witness ==
  /\ pc = "harmonics" /\ h.kind = "mapping" /\ cfg.expand_dims /\ ~FlattenFlag
  /\ c = "ba" /\ n_end = 2 /\ inm
  /\ _harmonics(c, 2, cfg.phase, TRUE, FALSE, cfg.salt)[1].shape = <<3, 2>>
  /\ h.nodes[1].shape = <<2, 3>>
  /\ h.nodes[2].shape = <<1, 3>>

\* the length of a node's own index range
OwnRange(t, node, n, b) == IF IsTypeA(t, node) /\ b THEN 2 * n - 1 ELSE n

\* C17: for every tree, n_end >= 1 and both values of include_negative_m the
\* per-node tensors of harmonics(expand_dims=True, concat=False, flatten=False)
\* are mutually broadcastable: in every node slot each tensor has length 1 or
\* the length of that node's own index range, so a child axis carried by a
\* parent is as long as the child's own axis.
C17_MutualBroadcastability ==
  (pc = "harmonics" /\ h.kind = "mapping" /\ cfg.expand_dims /\ ~FlattenFlag)
    => /\ \A node \in 1..s_ndim(c), slot \in 1..s_ndim(c) :
            /\ h.nodes[node].shape[slot] \in {1, OwnRange(c, slot, n_end, inm)}
            /\ h.nodes[slot].shape[slot] = OwnRange(c, slot, n_end, inm)
       /\ \A node \in 1..s_ndim(c), other \in 1..s_ndim(c) :
            Broadcastable(h.nodes[node].shape, h.nodes[other].shape)
       /\ BroadcastAll([node \in 1..s_ndim(c) |-> h.nodes[node].shape], 1,
                       [d \in 1..s_ndim(c) |-> 1])
            = [d \in 1..s_ndim(c) |-> OwnRange(c, d, n_end, inm)]
C17_Witness ==
  /\ pc = "harmonics" /\ h.kind = "mapping" /\ cfg.expand_dims /\ ~FlattenFlag
  /\ c = "caa" /\ n_end = 3 /\ inm
  /\ h.nodes[1].shape = <<3, 5, 5>>
  /\ h.nodes[2].shape = <<1, 5, 1>>
  /\ h.nodes[3].shape = <<1, 1, 5>>

RECURSIVE SumEq(_, _)
SumEq(n, d) == IF n < 1 THEN 0 ELSE SumEq(n - 1, d) + harm_n_ndim_eq(n - 1, d)

\* C18: harm_n_ndim_le(n_end, c_ndim) is the sum over k = 0..n_end-1 of
\* harm_n_ndim_eq(k, c_ndim), 0 for n_end < 1; over n_end = 0, 1, 2, 3 it is
\* 0, 1, 2, 2 for c_ndim = 1, 0, 1, 3, 5 for c_ndim = 2 and 0, 1, 4, 9 for
\* c_ndim = 3.
C18_CumulativeDimension ==
  (pc = "counted")
    => /\ dim.le = SumEq(dim.n, dim.c_ndim)
       /\ (dim.c_ndim = 1 /\ dim.n <= 3) => dim.le = <<0, 1, 2, 2>>[dim.n + 1]
       /\ (dim.c_ndim = 2 /\ dim.n <= 3) => dim.le = <<0, 1, 3, 5>>[dim.n + 1]
       /\ (dim.c_ndim = 3 /\ dim.n <= 3) => dim.le = <<0, 1, 4, 9>>[dim.n + 1]
C18_Witness == pc = "counted" /\ dim.c_ndim = 4 /\ dim.n = 3 /\ dim.le = 14 /\ dim.eq = 16

RECURSIVE Factorial(_)
Factorial(k) == IF k <= 0 THEN 1 ELSE k * Factorial(k - 1)

\* the documented N(n, d)
DocumentedN(n, d) ==
  IF d = 1 THEN (IF n = 0 THEN 1 ELSE 0)
  ELSE IF d = 2 THEN (IF n = 0 THEN 1 ELSE 2)
  ELSE ((2 * n + d - 2) * Factorial(n + d - 3)) \div ((d - 2) * Factorial(d - 3) * Factorial(n))

\* C19: harm_n_ndim_eq(n, c_ndim=d) equals the documented N(n, d): for d = 1
\* it is 1 if n = 0 and 0 if n >= 1, for d = 2 it is 1 if n = 0 and 2 if
\* n >= 1, for d >= 3 it is (2n + d - 2)/(d - 2) * binom(n + d - 3, d - 3).
C19_PerDegreeDimension ==
  (pc = "counted") => dim.eq = DocumentedN(dim.n, dim.c_ndim)

\* the quantum numbers at the joint index idx of the basis (n, b)
QuantumNumbers(t, n, b, idx) ==
  [node \in 1..s_ndim(t) |-> QuantumNumber(t, node, n, b, idx[node])]

\* the flattened basis built directly with (n, b): the quantum numbers of its
\* entries, in order
BasisOrder(t, n, b) ==
  LET shape == IndexSpace(t, n, b)
      all == [k \in 1..Size(shape) |-> Unravel(k - 1, shape)]
      Valid(idx) == CouplingRule(t, n, b, idx)
      kept == SelectSeq(all, Valid)
  IN [j \in 1..Len(kept) |-> QuantumNumbers(t, n, b, kept[j])]

\* the total degree of an entry: the absolute quantum number of the root node
TotalDegree(t, q) == IF s_ndim(t) = 0 THEN 0 ELSE Abs(q[1])

\* the quantum numbers of the entries the cut kept, in order
KeptOrder ==
  [j \in 1..Len(flat) |->
     QuantumNumbers(c, n_end, inm, Unravel(PositionOf(flat[j]) - 1, orig.shape))]

CutOfBuilt ==
  /\ pc = "cut" /\ Len(trail) = 1 /\ FromJoint /\ inm
  /\ call.n_end_arg[1] <= n_end

\* C20: for every tree and 0 <= n <= N, expand_cut(c, x, n) of a flattened
\* array x built for n_end = N has last-axis length harm_n_ndim_le(n, c_ndim)
\* and keeps exactly the entries of total degree (root quantum number) < n,
\* in the order of the flattened basis built directly with n_end = n.
C20_DegreeCutPrefix ==
  CutOfBuilt
    => LET n == call.n_end_arg[1]
           built == BasisOrder(c, n_end, TRUE)
       IN /\ Len(flat) = harm_n_ndim_le(n, c_ndim(c))
          /\ {KeptOrder[j] : j \in 1..Len(flat)}
               = {built[k] : k \in {i \in 1..Len(built) : TotalDegree(c, built[i]) < n}}
          /\ KeptOrder = BasisOrder(c, n, TRUE)

\* C21: in flatten_harmonics a caller-supplied n_end (resp. include_negative_m)
\* is the value the mask is built with whenever it is not None; inference from
\* the trailing-axis sizes replaces only a parameter that was not supplied.
C21_ExplicitParametersWin ==
  (call.op = "flatten")
    => /\ call.n_end_arg # None => res[1] = call.n_end_arg[1]
       /\ call.inm_arg # None => res[2] = call.inm_arg[1]

\* C22: expand_evaluate accepts both expansion forms: a flattened Array gives
\* an Array, and a Mapping from node to per-node (not dimension-expanded)
\* coefficient array gives a Mapping over every node of c.s_nodes, without
\* raising.
C22_BothExpansionForms ==
  (call.op = "expand_evaluate" /\ pc # "loop")
    => /\ (ee.form = "array" /\ pc = "expanded") => ee.kind = "array"
       /\ ee.form = "mapping" => (pc = "expanded" /\ err = "none" /\ ee.kind = "mapping")

\* the search loop of the inference stops at n on a last axis of this size
SearchLoopFinds(t, size, n) ==
  /\ harm_n_ndim_le(n, c_ndim(t)) = size
  /\ \A k \in 0..(n - 1) : harm_n_ndim_le(k, c_ndim(t)) < size

JointReturned ==
  /\ pc = "harmonics" /\ h.kind = "array" /\ inm
  /\ cfg.concat /\ cfg.expand_dims /\ ~cfg.iwsqn /\ ~FlattenFlag

\* C24: for every tree, n_end >= 1 and phase (fill value 0,
\* include_negative_m=True) the joint tensor of harmonics(concat=True,
\* flatten=False) is 0 at every joint index where the validity mask is False,
\* also at the mirrored negative orders of a type-A child, so
\* unflatten_harmonics(flatten_harmonics(h)) equals h at every position.
C24_SupportInsideMask ==
  JointReturned
    => LET own_mask == flatten_mask_harmonics(c, n_end, TRUE)
           flattened == flatten_harmonics(c, h.joint, None, None)
       IN /\ h.joint.shape = own_mask.shape
          /\ \A k \in 1..Len(own_mask.data) : ~own_mask.data[k] => h.joint.data[k] = 0
          /\ flattened.err = "none"
          /\ \E n \in 0..(MaxNEnd + 1) : SearchLoopFinds(c, Len(flattened.flat), n)
          /\ \A n \in 0..(MaxNEnd + 1) :
               SearchLoopFinds(c, Len(flattened.flat), n)
                 => LET r == unflatten_harmonics(c, flattened.flat, n, TRUE)
                    IN r.err = "none" /\ r.result = h.joint
C24_Witness ==
  /\ JointReturned /\ c = "caa" /\ n_end = 3
  /\ h.joint.shape = <<3, 5, 5>>
  /\ Cardinality({k \in 1..75 : h.joint.data[k] = 0}) = 75 - 14

\* C25: for every fill_value f, type_c with
\* index_with_surrogate_quantum_number=False returns f at every index
\* [l_cos, l_sin, l] that is not possible, i.e. wherever l - l_cos - l_sin is
\* negative or odd.
C25_TypeCFillValue ==
  (pc = "evaluated" /\ ev.kind = "type_c" /\ ~ev.iwsqn)
    => \A l_cos \in 0..(ev.n_end - 1), l_sin \in 0..(ev.n_end - 1), l \in 0..(ev.n_end - 1) :
         (l - l_cos - l_sin < 0 \/ (l - l_cos - l_sin) % 2 = 1)
           => At(ev.out, <<l_cos, l_sin, l>>) = ev.fill_value

\* the first position of a stage in the stages of the call, 0 if it never ran
StagePosition(stage) ==
  IF \E i \in 1..Len(h.stages) : h.stages[i] = stage
  THEN CHOOSE i \in 1..Len(h.stages) :
         h.stages[i] = stage /\ \A j \in 1..(i - 1) : h.stages[j] # stage
  ELSE 0

InvalidConfiguration ==
  \/ cfg.iwsqn /\ cfg.expand_dims
  \/ cfg.concat /\ ~cfg.expand_dims
  \/ FlattenFlag /\ ~cfg.expand_dims

C27_InferenceTerminates ==
  (pc = "loop" /\ call.op = "assume") ~> (pc # "loop")

\* C28: for every tree, every node, every n_end >= 1 and
\* include_negative_m=True, index_array_harmonics_all(expand_dims=True,
\* as_array=False, flatten=True)[node] equals index_array_harmonics(c, node,
\* expand_dims=True, flatten=True): a 1-D array of length
\* harm_n_ndim_le(n_end, c_ndim) listing that node's quantum number for each
\* basis function in canonical order.
C28_IndexEntryPointsAgree ==
  (pc = "indexed" /\ ix.entry = "all" /\ inm /\ n_end >= 1)
    => /\ ix.err = "none"
       /\ Len(ix.nodes) = s_ndim(c)
       /\ \A node \in 1..s_ndim(c) :
            LET single == index_array_harmonics(c, node, n_end, TRUE)
                basis == BasisOrder(c, n_end, TRUE)
            IN /\ single.err = "none"
               /\ ix.nodes[node] = single.flat
               /\ Len(ix.nodes[node]) = harm_n_ndim_le(n_end, c_ndim(c))
               /\ ix.nodes[node] = [j \in 1..Len(basis) |-> basis[j][node]]

\* x was flattened with its own n_end and include_negative_m=False and the
\* result handed to unflatten_harmonics(include_negative_m=False)
WithoutNegativeOrders ==
  /\ ~inm /\ Len(trail) = 2
  /\ trail[1] = [op |-> "flatten", n_end_arg |-> Some(n_end), inm_arg |-> Some(FALSE),
                 fill |-> None]
  /\ trail[2] = [op |-> "unflatten", n_end_arg |-> None, inm_arg |-> Some(FALSE),
                 fill |-> None]

\* C29: for every tree and n_end >= 2, unflatten_harmonics(c,
\* flatten_harmonics(c, x, n_end=n_end, include_negative_m=False),
\* include_negative_m=False) returns a tensor of the joint shape of
\* (n_end, include_negative_m=False) that equals x wherever the
\* include_negative_m=False mask is True.
C29_RoundTripWithoutNegativeM ==
  (WithoutNegativeOrders /\ n_end >= 2 /\ call.op = "unflatten" /\ pc # "loop")
    => /\ pc = "unflattened"
       /\ joint.shape = JointShape(c, n_end, FALSE)
       /\ \A k \in 1..Size(orig.shape) :
            CouplingRule(c, n_end, FALSE, Unravel(k - 1, orig.shape))
              => joint.data[k] = orig.data[k]

\* the order m of the sin child (phi) in the i-th basis function of n_end = n
OrderOf(n, i) == BasisOrder("ba", n, TRUE)[i][2]

\* C30: for the tree "ba" and every phase p, the sign that
\* harmonics_translation_coef(method="gumerov") multiplies onto entry
\* (m, m_add) of the Condon-Shortley table is
\* s_p(m) * s_p(m_add) * s_CS(m) * s_CS(m_add), s_q being the sign type_a
\* applies under phase q; for p = CONDON_SHORTLEY the table is unchanged.
C30_TranslationPhase ==
  (pc = "translated")
    => LET table == CoefTable(tr.n_end * tr.n_end, tr.n_end_add * tr.n_end_add, tr.salt)
       IN /\ tr.err = "none"
          /\ Len(tr.out) = tr.n_end * tr.n_end
          /\ \A i \in 1..Len(tr.out) :
               /\ Len(tr.out[i]) = tr.n_end_add * tr.n_end_add
               /\ \A j \in 1..Len(tr.out[i]) :
                    tr.out[i][j] =
                      table[i][j]
                        * PhaseSign(OrderOf(tr.n_end, i), tr.phase)
                        * PhaseSign(OrderOf(tr.n_end_add, j), tr.phase)
                        * PhaseSign(OrderOf(tr.n_end, i), 1)
                        * PhaseSign(OrderOf(tr.n_end_add, j), 1)
          /\ tr.phase = 1 => tr.out = table
C30_Witness ==
  /\ pc = "translated" /\ tr.phase = 2 /\ tr.n_end = 2 /\ tr.n_end_add = 3
  /\ OrderOf(2, 4) = -1 /\ OrderOf(3, 3) = 1
  /\ tr.out[4][3] = -CoefTable(4, 9, tr.salt)[4][3]
  /\ tr.out[4][4] = CoefTable(4, 9, tr.salt)[4][4]

====
